---- MODULE Spec2Model ----
(***************************************************************************)
(* A model of the xompile editor extension (class CodeHistory and the two  *)
(* commands registered by activate).  The source file holds two variants   *)
(* of the class: the extended one (code references, two report documents)  *)
(* and the base one.  The variable mode selects the variant.               *)
(*                                                                         *)
(* Text is modelled character by character: a line is a sequence of        *)
(* one-character strings, so that the regular expressions, trim and        *)
(* parseInt are computed as the code computes them.                        *)
(***************************************************************************)
EXTENDS Integers, Sequences, FiniteSets, TLC

VARIABLES
    mode,              \* "extended" or "base": which variant of the class runs
    docs,              \* file path -> text document (languageId, lines); the live buffers
    activeTextEditor,  \* path of the focused editor's document, or NoEditor
    changeLog,         \* CodeHistory.changeLog, in insertion order
    updateInterval,    \* TRUE while the setInterval timer is armed
    subscribed,        \* TRUE while the commands are registered (not yet disposed)
    now,               \* Date.now(), counted in timer periods
    inv,               \* the updateChangeLog invocations started so far
    cmd,               \* the xompile.rollbackToComment command in flight
    message,           \* the last notice shown by rollbackToComment / its command
    report,            \* the documents generateMarkdownReport composed last
    hist               \* history: what the readers saw, edits, completed refreshes

vars == <<mode, docs, activeTextEditor, changeLog, updateInterval, subscribed,
          now, inv, cmd, message, report, hist>>

-----------------------------------------------------------------------------
(* Bounds of the model. *)

MaxLines == 4

MaxRefreshes == 2

MaxEdits == 1

MaxScans == 2

MaxRollbacks == 1

-----------------------------------------------------------------------------
(* Characters, trim, and the regular expressions. *)

\* null for a regular expression and for a match result (both are sequences)
null == <<>>

IsSpace(c) == c \in {" ", "\t"}

Digits == {"0", "1", "2", "3", "4", "5", "6", "7", "8", "9"}

IsDigit(c) == c \in Digits

RECURSIVE trimStart(_)
trimStart(s) ==
    IF s # <<>> /\ IsSpace(Head(s)) THEN trimStart(Tail(s)) ELSE s

RECURSIVE trimEnd(_)
trimEnd(s) ==
    IF s # <<>> /\ IsSpace(s[Len(s)]) THEN trimEnd(SubSeq(s, 1, Len(s) - 1)) ELSE s

\* String.prototype.trim
trim(s) == trimEnd(trimStart(s))

StartsWithAt(s, p, i) ==
    /\ i + Len(p) - 1 <= Len(s)
    /\ SubSeq(s, i, i + Len(p) - 1) = p

\* RegExp.prototype.test for a pattern that is a literal: found anywhere in s
test(literal, s) == \E i \in 1..Len(s) : StartsWithAt(s, literal, i)

codeBlockStartRegex == <<"/", "/", "[", "!", "!", "]">>

codeBlockEndRegex == <<"/", "/", "[", "-", "!", "!", "-", "]">>

SupportedLanguages == {"javascript", "typescript", "python", "java"}

\* The regular expression of a language is /^<marker>\s*(\d+):(.*)$/; it is
\* represented by its marker, and null when the language has none.
getCommentRegexMutant(languageId) ==
    CASE languageId = "python" -> <<"#">>
      [] OTHER -> <<"/", "/">>

getCommentRegex(languageId) ==
    CASE languageId \in {"javascript", "typescript"} -> <<"/", "/">>
      [] languageId = "python" -> <<"#">>
      [] languageId = "java" -> <<"/", "/">>
      [] OTHER -> null

RECURSIVE CountWhileSpace(_, _)
CountWhileSpace(s, i) ==
    IF i <= Len(s) /\ IsSpace(s[i]) THEN CountWhileSpace(s, i + 1) ELSE i

RECURSIVE CountWhileDigit(_, _)
CountWhileDigit(s, i) ==
    IF i <= Len(s) /\ IsDigit(s[i]) THEN CountWhileDigit(s, i + 1) ELSE i

\* text.match(/^<marker>\s*(\d+):(.*)$/): null, or <<whole, digits, payload>>
\* (match[0], match[1], match[2]).  The character classes are disjoint, so the
\* greedy match is the only one.
match(text, marker) ==
    IF ~StartsWithAt(text, marker, 1) THEN null
    ELSE LET d == CountWhileSpace(text, Len(marker) + 1)
             c == CountWhileDigit(text, d)
         IN  IF c = d \/ c > Len(text) \/ text[c] # ":" THEN null
             ELSE <<text, SubSeq(text, d, c - 1), SubSeq(text, c + 1, Len(text))>>

\* match[k] of a JavaScript match array
Group(m, k) == m[k + 1]

-----------------------------------------------------------------------------
(* extractNumberedComments, extended variant. *)

\* `[Code Reference ${n}](#code-${n})`: the number of the label and of the anchor
CodeReference(labelNumber, anchorNumber) ==
    [label |-> labelNumber, anchor |-> anchorNumber]

HasCodeReference(entry) == "codeReference" \in DOMAIN entry

\* comments.forEach at a block end: every entry without a code reference gets one
RECURSIVE assignCodeReferences(_, _, _)
assignCodeReferences(comments, i, acc) ==
    IF i > Len(comments) THEN acc
    ELSE IF HasCodeReference(comments[i])
         THEN assignCodeReferences(comments, i + 1,
                  [acc EXCEPT !.comments = Append(@, comments[i])])
         ELSE assignCodeReferences(comments, i + 1,
                  [acc EXCEPT
                     !.comments = Append(@,
                         [lineNumber    |-> comments[i].lineNumber,
                          comment       |-> comments[i].comment,
                          timestamp     |-> comments[i].timestamp,
                          filePath      |-> comments[i].filePath,
                          codeReference |-> CodeReference(acc.codeReferenceCounter,
                                                          acc.codeReferenceCounter)]),
                     !.codeReferenceCounter = @ + 1])

pushCommentMutant(acc, line, m, filePath, ts) ==
    [acc EXCEPT
       !.comments = Append(@,
           [lineNumber    |-> line + 1,
            comment       |-> trim(Group(m, 2)),
            timestamp     |-> ts,
            filePath      |-> filePath,
            codeReference |-> CodeReference(acc.codeReferenceCounter,
                                            acc.codeReferenceCounter)])]

\* comments.push({... codeReference: `[Code Reference ${c}](#code-${c++})`})
pushComment(acc, line, m, filePath, ts) ==
    [acc EXCEPT
       !.comments = Append(@,
           [lineNumber    |-> line + 1,
            comment       |-> trim(Group(m, 2)),
            timestamp     |-> ts,
            filePath      |-> filePath,
            codeReference |-> CodeReference(acc.codeReferenceCounter,
                                            acc.codeReferenceCounter)]),
       !.codeReferenceCounter = @ + 1]

\* One iteration of the for loop over the lines (line is 0-based).
extractLine(acc, text, line, marker, filePath, ts) ==
    LET m == match(text, marker) IN
    IF test(codeBlockStartRegex, text)
    THEN [acc EXCEPT !.codeBlockLines = <<>>]
    ELSE IF test(codeBlockEndRegex, text)
    THEN assignCodeReferences(acc.comments, 1, [acc EXCEPT !.comments = <<>>])
    ELSE IF m # null
    THEN pushComment(acc, line, m, filePath, ts)
    ELSE IF \/ Len(acc.codeBlockLines) > 0
            \/ \E i \in 1..Len(acc.comments) : ~HasCodeReference(acc.comments[i])
         THEN [acc EXCEPT !.codeBlockLines = Append(@, text)]
         ELSE acc

RECURSIVE extractLoop(_, _, _, _, _, _)
extractLoop(acc, lines, line, marker, filePath, ts) ==
    IF line >= Len(lines) THEN acc
    ELSE extractLoop(extractLine(acc, lines[line + 1], line, marker, filePath, ts),
                     lines, line + 1, marker, filePath, ts)

\* let codeReferenceCounter = 1, a local of every call; the mutant seeds it
\* from state that outlives the call
codeReferenceCounterInitMutant == now + 1

codeReferenceCounterInit == 1

extractNumberedCommentsExtended(document, filePath, ts) ==
    LET commentRegex == getCommentRegex(document.languageId) IN
    IF commentRegex = null THEN <<>>
    ELSE extractLoop([comments |-> <<>>,
                      codeReferenceCounter |-> codeReferenceCounterInit,
                      codeBlockLines |-> <<>>],
                     document.lines, 0, commentRegex, filePath, ts).comments

-----------------------------------------------------------------------------
(* extractNumberedComments, base variant. *)

RECURSIVE extractLoopBase(_, _, _, _, _, _)
extractLoopBase(comments, lines, line, marker, filePath, ts) ==
    IF line >= Len(lines) THEN comments
    ELSE LET text == trim(lines[line + 1])
             m == match(text, marker)
         IN  extractLoopBase(
                 IF m # null
                 THEN Append(comments,
                          [lineNumber |-> line + 1,
                           comment    |-> trim(Group(m, 2)),
                           timestamp  |-> ts,
                           filePath   |-> filePath])
                 ELSE comments,
                 lines, line + 1, marker, filePath, ts)

extractNumberedCommentsBase(document, filePath, ts) ==
    LET commentRegex == getCommentRegex(document.languageId) IN
    IF commentRegex = null THEN <<>>
    ELSE extractLoopBase(<<>>, document.lines, 0, commentRegex, filePath, ts)

extractNumberedComments(variant, document, filePath, ts) ==
    IF variant = "extended"
    THEN extractNumberedCommentsExtended(document, filePath, ts)
    ELSE extractNumberedCommentsBase(document, filePath, ts)

-----------------------------------------------------------------------------
(* The workspace: the host's files and findFiles. *)

\* vscode.workspace.workspaceFolders
workspaceFolders == <<"/r1", "/r2">>

\* The files on disk: folder, extension, and whether under node_modules.
WorkspaceFiles ==
    { [fsPath |-> "/r1/a.js", folder |-> "/r1", ext |-> ".js", nodeModules |-> FALSE],
      [fsPath |-> "/r1/b.js", folder |-> "/r1", ext |-> ".js", nodeModules |-> FALSE],
      [fsPath |-> "/r1/node_modules/d.js", folder |-> "/r1", ext |-> ".js",
       nodeModules |-> TRUE],
      [fsPath |-> "/r1/notes.md", folder |-> "/r1", ext |-> ".md", nodeModules |-> FALSE],
      [fsPath |-> "/r2/c.py", folder |-> "/r2", ext |-> ".py", nodeModules |-> FALSE] }

supportedExtensions == {".js", ".ts", ".py", ".java"}

\* The paths findFiles(RelativePattern(folder, **/*{exts}), **/node_modules/**)
\* resolves to; the order of the result is the host's choice.
findFiles(folder) ==
    { f.fsPath : f \in { g \in WorkspaceFiles :
                           /\ g.folder = folder
                           /\ g.ext \in supportedExtensions
                           /\ ~g.nodeModules } }

\* Every file a complete scan assigns
ScannedFiles == UNION { findFiles(workspaceFolders[i]) : i \in 1..Len(workspaceFolders) }

Orders(S) == { q \in [1..Cardinality(S) -> S] : \A i, j \in 1..Cardinality(S) :
                                                   i # j => q[i] # q[j] }

NoEditor == "undefined"

\* The documents of the sample workspace.  /r1/b.js is a .js file the host
\* gives a language identifier outside the supported set.
SampleDocs ==
    [f \in ScannedFiles |->
        CASE f = "/r1/a.js" ->
               [languageId |-> "javascript",
                lines |-> << <<"/", "/", " ", "1", ":", " ", "a">>,
                             <<"x">>,
                             <<"/", "/", " ", "2", ":", " ", "b">> >>]
          [] f = "/r1/b.js" ->
               [languageId |-> "javascriptreact",
                lines |-> << <<"/", "/", " ", "1", ":", " ", "q">> >>]
          [] OTHER ->
               [languageId |-> "python",
                lines |-> << <<"#", " ", "1", ":", " ", "c">> >>]]

-----------------------------------------------------------------------------
(* The change log: a JavaScript object, its keys in insertion order.  Each   *)
(* entry also records gen, the invocation that assigned it (history).        *)

HasKey(log, key) == \E i \in 1..Len(log) : log[i].key = key

IndexOfKey(log, key) == CHOOSE i \in 1..Len(log) : log[i].key = key

\* this.changeLog[key], for a key that is present
Lookup(log, key) == log[IndexOfKey(log, key)].entries

\* this.changeLog[key] = entries
Assign(log, key, entries, gen) ==
    IF HasKey(log, key)
    THEN [log EXCEPT ![IndexOfKey(log, key)] =
                        [key |-> key, entries |-> entries, gen |-> gen]]
    ELSE Append(log, [key |-> key, entries |-> entries, gen |-> gen])

Keys(log) == { log[i].key : i \in 1..Len(log) }

Generations(log) == { log[i].gen : i \in 1..Len(log) }

\* An entry without its timestamp
StripTimestamp(e) ==
    IF HasCodeReference(e)
    THEN [lineNumber |-> e.lineNumber, comment |-> e.comment, filePath |-> e.filePath,
          codeReference |-> e.codeReference]
    ELSE [lineNumber |-> e.lineNumber, comment |-> e.comment, filePath |-> e.filePath]

\* The change log compared on keys and, per key, on the entries without timestamps
Contents(log) ==
    [key \in Keys(log) |->
        [i \in 1..Len(Lookup(log, key)) |-> StripTimestamp(Lookup(log, key)[i])]]

-----------------------------------------------------------------------------
(* generateMarkdownReport: the documents it composes, element by element.    *)

Title == [kind |-> "title"]

Blank == [kind |-> "blank"]

Heading(filePath) == [kind |-> "heading", filePath |-> filePath]

\* `- ${codeReference} Line ${lineNumber}: ${comment} (**${time}**)`; the base
\* variant has no code reference
Item(entry) ==
    IF HasCodeReference(entry)
    THEN [kind |-> "item", codeReference |-> entry.codeReference,
          lineNumber |-> entry.lineNumber, comment |-> entry.comment,
          timestamp |-> entry.timestamp]
    ELSE [kind |-> "item", lineNumber |-> entry.lineNumber, comment |-> entry.comment,
          timestamp |-> entry.timestamp]

\* `## <a id="code-${counter}"></a> [Go to Doc Reference ${counter}](...)` and the
\* fenced block under it
Snippet(counter, entry) ==
    [kind |-> "snippet", id |-> counter, docReference |-> entry.codeReference,
     filePath |-> entry.filePath, lineNumber |-> entry.lineNumber,
     comment |-> entry.comment]

RECURSIVE Items(_, _)
Items(comments, i) ==
    IF i > Len(comments) THEN <<>>
    ELSE <<Item(comments[i])>> \o Items(comments, i + 1)

\* the second comments.forEach: a snippet for every entry with a code reference
RECURSIVE Snippets(_, _, _)
Snippets(comments, i, acc) ==
    IF i > Len(comments) THEN acc
    ELSE IF HasCodeReference(comments[i])
         THEN Snippets(comments, i + 1,
                  [code |-> Append(acc.code,
                                Snippet(acc.codeReferenceCounter, comments[i])),
                   codeReferenceCounter |-> acc.codeReferenceCounter + 1])
         ELSE Snippets(comments, i + 1, acc)

reportFileMutant(acc, comments, filePath) ==
    LET s == Snippets(comments, 1, [code |-> acc.code,
                                    codeReferenceCounter |-> acc.codeReferenceCounter])
    IN  [doc |-> acc.doc \o <<Heading(filePath)>> \o Items(comments, 1) \o <<Blank>>,
         code |-> s.code,
         codeReferenceCounter |-> s.codeReferenceCounter]

\* the body of `for (const filePath in this.changeLog)`
reportFile(acc, comments, filePath) ==
    IF Len(comments) > 0
    THEN LET s == Snippets(comments, 1,
                      [code |-> acc.code,
                       codeReferenceCounter |-> acc.codeReferenceCounter])
         IN  [doc |-> acc.doc \o <<Heading(filePath)>> \o Items(comments, 1)
                              \o <<Blank>>,
              code |-> s.code,
              codeReferenceCounter |-> s.codeReferenceCounter]
    ELSE acc

RECURSIVE reportLoop(_, _, _)
reportLoop(acc, log, i) ==
    IF i > Len(log) THEN acc
    ELSE reportLoop(reportFile(acc, log[i].entries, log[i].key), log, i + 1)

\* The documentation document and (extended variant) the code document.  The
\* base variant composes one document and no snippets: its entries carry no
\* code reference.
generateMarkdownReport(variant, log) ==
    LET r == reportLoop([doc |-> <<Title>>,
                         code |-> IF variant = "extended" THEN <<Title>> ELSE <<>>,
                         codeReferenceCounter |-> 1], log, 1)
    IN  [doc |-> r.doc, code |-> r.code]

NoReport == [doc |-> <<>>, code |-> <<>>]

-----------------------------------------------------------------------------
(* updateChangeLog and updateChangeLogForFolder, one action per resumption.  *)

InFlight(p) == inv[p].pc # "done"

\* Where an invocation stands when it reaches folder number i
EnterFolder(r, i) ==
    IF i > Len(workspaceFolders)
    THEN [r EXCEPT !.pc = "done", !.files = <<>>, !.file = 0, !.folder = 0,
                   !.clean = FALSE]
    ELSE [r EXCEPT !.pc = "findFiles", !.folder = i, !.files = <<>>, !.file = 0]

\* Two refreshes in succession: the contents of the store at the end of each
\* refresh that ran alone over an unedited workspace, the last two kept.
Completed(h, p, log) ==
    IF inv[p].clean
    THEN [h EXCEPT !.snapshots =
              IF Len(@) = 2 THEN <<@[2], Contents(log)>> ELSE Append(@, Contents(log))]
    ELSE [h EXCEPT !.snapshots = <<>>]

\* What follows a step that leaves invocation p as r and the store as log: when
\* r is done and the xompile.generateReport command awaited it, the command
\* goes on to generateMarkdownReport in the same turn.
Resume(p, r, log) ==
    /\ inv' = [inv EXCEPT ![p] = r]
    /\ changeLog' = log
    /\ IF r.pc = "done"
       THEN IF r.kind = "command"
            THEN /\ report' = generateMarkdownReport(mode, log)
                 /\ hist' = [Completed(hist, p, log) EXCEPT
                                !.observed = Generations(log)]
            ELSE /\ hist' = Completed(hist, p, log)
                 /\ UNCHANGED report
       ELSE UNCHANGED <<report, hist>>

\* this.changeLog = {}
resetChangeLog == <<>>

\* updateChangeLog() up to its first await: the store is reset and findFiles
\* is called for the first folder.
updateChangeLog(kind) ==
    /\ Len(inv) < MaxRefreshes
    /\ LET p == Len(inv) + 1
           others == [q \in DOMAIN inv |-> [inv[q] EXCEPT !.clean = @ /\ ~InFlight(q)]]
           r == EnterFolder([kind |-> kind, pc |-> "findFiles", folder |-> 0,
                             files |-> <<>>, file |-> 0, written |-> {},
                             clean |-> \A q \in DOMAIN inv : ~InFlight(q)], 1)
       IN  /\ inv' = Append(others, r)
           /\ changeLog' = resetChangeLog
           /\ UNCHANGED <<report, hist>>

\* The setInterval callback of startUpdateInterval; one timer period passes.
\* After clearInterval the period passes and nothing runs.
TimerTick ==
    /\ now < MaxRefreshes
    /\ now' = now + 1
    /\ IF updateInterval
       THEN updateChangeLog("timer")
       ELSE UNCHANGED <<changeLog, inv, report, hist>>
    /\ UNCHANGED <<mode, docs, activeTextEditor, updateInterval, subscribed, cmd, message>>

\* The xompile.generateReport command, up to its await.
GenerateReportCommand ==
    /\ subscribed
    /\ updateChangeLog("command")
    /\ UNCHANGED <<mode, docs, activeTextEditor, updateInterval, subscribed, now, cmd,
                   message>>

\* await findFiles(...) resolves, in an order of the host's choice; the loop
\* calls openTextDocument for the first file, or the next folder is entered.
FindFilesResolved(p) ==
    /\ inv[p].pc = "findFiles"
    /\ \E files \in Orders(findFiles(workspaceFolders[inv[p].folder])) :
         Resume(p,
                IF Len(files) = 0
                THEN EnterFolder(inv[p], inv[p].folder + 1)
                ELSE [inv[p] EXCEPT !.pc = "openTextDocument", !.files = files,
                                    !.file = 1],
                changeLog)
    /\ UNCHANGED <<mode, docs, activeTextEditor, updateInterval, subscribed, now, cmd,
                   message>>

\* await openTextDocument(file) resolves: the document is scanned and assigned
\* to this.changeLog, whichever object that is by now; then the next file is
\* opened, or the next folder entered.
OpenTextDocumentResolved(p) ==
    /\ inv[p].pc = "openTextDocument"
    /\ LET file == inv[p].files[inv[p].file]
           log == Assign(changeLog, file,
                         extractNumberedComments(mode, docs[file], file, now), p)
           r == [inv[p] EXCEPT !.written = @ \cup {file}]
       IN  Resume(p,
                  IF inv[p].file < Len(inv[p].files)
                  THEN [r EXCEPT !.file = @ + 1]
                  ELSE EnterFolder(r, inv[p].folder + 1),
                  log)
    /\ UNCHANGED <<mode, docs, activeTextEditor, updateInterval, subscribed, now, cmd,
                   message>>

\* dispose(), called when the extension's subscriptions are disposed: the
\* commands are unregistered with it.
disposeMutant ==
    /\ subscribed
    /\ subscribed' = FALSE
    /\ UNCHANGED <<mode, docs, activeTextEditor, changeLog, updateInterval, now, inv, cmd,
                   message, report, hist>>

dispose ==
    /\ subscribed
    /\ subscribed' = FALSE
    /\ updateInterval' = FALSE
    /\ UNCHANGED <<mode, docs, activeTextEditor, changeLog, now, inv, cmd, message,
                   report, hist>>

-----------------------------------------------------------------------------
(* The editor, the user, and the xompile.rollbackToComment command.          *)

NoCommand ==
    [pc |-> "idle", filename |-> NoEditor, nan |-> TRUE, commentNumber |-> 0,
     started |-> 0]

\* The documents shown in editor tabs
OpenEditors == {"/r1/a.js", "/r2/c.py"}

\* The user focuses another editor, or closes the focused one.
FocusEditor(f) ==
    /\ f # activeTextEditor
    /\ activeTextEditor' = f
    /\ UNCHANGED <<mode, docs, changeLog, updateInterval, subscribed, now, inv, cmd,
                   message, report, hist>>

\* An edit of a buffer ends every run of refreshes over an unedited workspace.
Edited(h) == [h EXCEPT !.snapshots = <<>>, !.edits = @ + 1]

Unclean == [q \in DOMAIN inv |-> [inv[q] EXCEPT !.clean = FALSE]]

\* The user deletes the first line of the focused document.
UserEdit ==
    /\ hist.edits < MaxEdits
    /\ activeTextEditor # NoEditor
    /\ Len(docs[activeTextEditor].lines) > 0
    /\ docs' = [docs EXCEPT ![activeTextEditor].lines = Tail(@)]
    /\ hist' = Edited(hist)
    /\ inv' = Unclean
    /\ UNCHANGED <<mode, activeTextEditor, changeLog, updateInterval, subscribed, now,
                   cmd, message, report>>

DigitValue(c) ==
    CASE c = "0" -> 0 [] c = "1" -> 1 [] c = "2" -> 2 [] c = "3" -> 3 [] c = "4" -> 4
      [] c = "5" -> 5 [] c = "6" -> 6 [] c = "7" -> 7 [] c = "8" -> 8 [] c = "9" -> 9

RECURSIVE DecimalValue(_, _, _)
DecimalValue(s, i, acc) ==
    IF i <= Len(s) /\ IsDigit(s[i])
    THEN DecimalValue(s, i + 1, 10 * acc + DigitValue(s[i]))
    ELSE acc

\* parseInt(s, 10): leading white space and a sign are skipped, the longest
\* prefix of digits is read, and anything after it is ignored; NaN without a digit.
parseInt(s) ==
    LET t == trimStart(s)
        signed == t # <<>> /\ Head(t) \in {"-", "+"}
        u == IF signed THEN Tail(t) ELSE t
    IN  IF u = <<>> \/ ~IsDigit(Head(u))
        THEN [nan |-> TRUE, value |-> 0]
        ELSE [nan |-> FALSE,
              value |-> IF signed /\ Head(t) = "-"
                        THEN 0 - DecimalValue(u, 1, 0)
                        ELSE DecimalValue(u, 1, 0)]

\* What the user may type into the input box; the empty string also stands
\* for a dismissed box (undefined || '').
Inputs ==
    { <<>>, <<"x">>, <<"1">>, <<"2">>, <<" ", "3", "x">> }

Min(S) == CHOOSE x \in S : \A y \in S : x <= y

findMutant(entries, commentNumber) ==
    LET hits == { i \in 1..Len(entries) : entries[i].lineNumber >= commentNumber }
    IN  IF hits = {} THEN 0 ELSE Min(hits)

\* entries.find(entry => entry.lineNumber === commentNumber): the index of
\* the first such entry, 0 for undefined
find(entries, commentNumber) ==
    LET hits == { i \in 1..Len(entries) : entries[i].lineNumber = commentNumber }
    IN  IF hits = {} THEN 0 ELSE Min(hits)

\* editBuilder.replace(Range(line start, line end), ''): the text of the line
\* goes, the line and its terminator stay
replaceLineMutant(lines, line) ==
    [i \in 1..(Len(lines) - 1) |-> IF i <= line THEN lines[i] ELSE lines[i + 1]]

replaceLine(lines, line) == [lines EXCEPT ![line + 1] = <<>>]

WrongBufferMutant(fileName, filename) == FALSE

\* editor.document.fileName !== filename
WrongBuffer(fileName, filename) == fileName # filename

\* rollbackToComment(filename, commentNumber).  lineAt throws for a line the
\* buffer does not have; the host applies the edit or, when the document has
\* changed under it, rejects it (accepted), and the notice is shown either way.
rollbackToComment(filename, commentNumber, accepted) ==
    IF ~HasKey(changeLog, filename)
    THEN /\ message' = "No history found"
         /\ UNCHANGED <<docs, hist, inv>>
    ELSE IF find(Lookup(changeLog, filename), commentNumber) = 0
    THEN /\ message' = "Comment not found"
         /\ UNCHANGED <<docs, hist, inv>>
    ELSE IF activeTextEditor = NoEditor
    THEN /\ message' = "No active editor"
         /\ UNCHANGED <<docs, hist, inv>>
    ELSE IF WrongBuffer(activeTextEditor, filename)
    THEN /\ message' = "Please open"
         /\ UNCHANGED <<docs, hist, inv>>
    ELSE LET entries == Lookup(changeLog, filename)
             targetEntry == entries[find(entries, commentNumber)]
             line == targetEntry.lineNumber - 1
             lines == docs[activeTextEditor].lines
         IN  IF line >= Len(lines)
             THEN /\ message' = "Illegal value for line"
                  /\ UNCHANGED <<docs, hist, inv>>
             ELSE /\ message' = "Rolled back"
                  /\ IF accepted /\ replaceLine(lines, line) # lines
                     THEN /\ docs' = [docs EXCEPT ![activeTextEditor].lines =
                                                     replaceLine(lines, line)]
                          /\ hist' = Edited(hist)
                          /\ inv' = Unclean
                     ELSE UNCHANGED <<docs, hist, inv>>

\* The xompile.rollbackToComment command up to its await: the file name of
\* the focused editor is captured and the input box is shown.
RollbackCommand ==
    /\ subscribed
    /\ cmd.pc = "idle"
    /\ hist.rollbacks < MaxRollbacks
    /\ activeTextEditor # NoEditor
    /\ cmd' = [NoCommand EXCEPT !.pc = "prompt", !.filename = activeTextEditor]
    /\ hist' = [hist EXCEPT !.rollbacks = @ + 1]
    /\ UNCHANGED <<mode, docs, activeTextEditor, changeLog, updateInterval, subscribed,
                   now, inv, message, report>>

\* await showInputBox resolves: the input is parsed and rollbackToComment is
\* called with the file name captured before the await.  cmd keeps the
\* arguments of the call and, as history, the number of refreshes started
\* by then.
RollbackAnswered(input, accepted) ==
    /\ cmd.pc = "prompt"
    /\ LET n == parseInt(input) IN
       /\ cmd' = [pc |-> "idle", filename |-> cmd.filename, nan |-> n.nan,
                  commentNumber |-> n.value, started |-> Len(inv)]
       /\ IF n.nan
          THEN /\ message' = "Invalid line number"
               /\ UNCHANGED <<docs, hist, inv>>
          ELSE rollbackToComment(cmd.filename, n.value, accepted)
    /\ UNCHANGED <<mode, activeTextEditor, changeLog, updateInterval, subscribed, now,
                   report>>

-----------------------------------------------------------------------------
(* The specification. *)



NoMessage == "none"

InitHistory == [observed |-> {}, snapshots |-> <<>>, edits |-> 0, rollbacks |-> 0]

Init ==
    /\ mode \in {"extended", "base"}
    /\ docs = SampleDocs
    /\ activeTextEditor = NoEditor
    /\ changeLog = <<>>
    /\ updateInterval = TRUE
    /\ subscribed = TRUE
    /\ now = 0
    /\ inv = <<>>
    /\ cmd = NoCommand
    /\ message = NoMessage
    /\ report = NoReport
    /\ hist = InitHistory

Next ==
    \/ TimerTick
    \/ GenerateReportCommand
    \/ \E p \in DOMAIN inv : FindFilesResolved(p)
    \/ \E p \in DOMAIN inv : OpenTextDocumentResolved(p)
    \/ dispose

Spec == Init /\ [][Next]_vars

\* The rollback command over a workspace the timer rescans.
NextRollback ==
    \/ Len(inv) < MaxScans /\ TimerTick
    \/ \E p \in DOMAIN inv : FindFilesResolved(p)
    \/ \E p \in DOMAIN inv : OpenTextDocumentResolved(p)
    \/ \E f \in OpenEditors \cup {NoEditor} : FocusEditor(f)
    \/ UserEdit
    \/ RollbackCommand
    \/ \E input \in Inputs, accepted \in BOOLEAN : RollbackAnswered(input, accepted)

SpecRollback == Init /\ [][NextRollback]_vars

-----------------------------------------------------------------------------
(* The extractor on its own: one document of bounded length, scanned once.   *)

\* The lines a document is drawn from.
LineCatalogue ==
    { <<"/", "/", " ", "1", ":", " ", "a", " ">>,
      <<"x">>,
      codeBlockStartRegex,
      codeBlockEndRegex,
      <<"/", "/", "2", ":", "b">> \o codeBlockStartRegex,
      <<" ", "/", "/", " ", "3", ":", "c">>,
      <<"#", " ", "4", ":", " ", "d">> }

Languages == SupportedLanguages \cup {"plaintext"}

Documents ==
    { [languageId |-> l, lines |-> t] :
        l \in Languages,
        t \in UNION { [1..n -> LineCatalogue] : n \in 0..MaxLines } }

TheFile == "/r1/a.js"

InitExtract ==
    /\ mode \in {"extended", "base"}
    /\ \E d \in Documents : docs = [SampleDocs EXCEPT ![TheFile] = d]
    /\ activeTextEditor = NoEditor
    /\ changeLog = <<>>
    /\ updateInterval = TRUE
    /\ subscribed = TRUE
    /\ now = 0
    /\ inv = <<>>
    /\ cmd = NoCommand
    /\ message = NoMessage
    /\ report = NoReport
    /\ hist = InitHistory

\* this.changeLog[file.fsPath] = this.extractNumberedComments(document)
ScanDocument ==
    /\ ~HasKey(changeLog, TheFile)
    /\ changeLog' = Assign(changeLog, TheFile,
                           extractNumberedComments(mode, docs[TheFile], TheFile, now), 1)
    /\ UNCHANGED <<mode, docs, activeTextEditor, updateInterval, subscribed, now, inv,
                   cmd, message, report, hist>>

NextExtract == ScanDocument

SpecExtract == InitExtract /\ [][NextExtract]_vars

Scanned == HasKey(changeLog, TheFile)

ScannedEntries == Lookup(changeLog, TheFile)

\* The numbered-comment pattern of a supported language, per the table of
\* markers: # for python, // for the others.
PatternMarker(languageId) == IF languageId = "python" THEN <<"#">> ELSE <<"/", "/">>

\* The match of a line against the pattern: the base extractor trims the line
\* first, the extended one does not.
LineMatch(variant, text, languageId) ==
    IF variant = "base"
    THEN match(trim(text), PatternMarker(languageId))
    ELSE match(text, PatternMarker(languageId))

IsBlockStart(text) == test(codeBlockStartRegex, text)

IsBlockEnd(text) == test(codeBlockEndRegex, text)

IsAnnotation(text, languageId) ==
    /\ LineMatch("extended", text, languageId) # null
    /\ ~IsBlockStart(text)
    /\ ~IsBlockEnd(text)

\* A document with one fenced block (block start at s, block end at e), no
\* other sentinel, no annotation inside the block, and no annotation between
\* the ones immediately before the block and the block: N annotations outside
\* the block and M immediately before it.
OneFencedBlock(d) ==
    \E s, e \in 1..Len(d.lines) :
        /\ s < e
        /\ IsBlockStart(d.lines[s])
        /\ IsBlockEnd(d.lines[e])
        /\ \A i \in 1..Len(d.lines) :
               /\ IsBlockStart(d.lines[i]) => i = s
               /\ IsBlockEnd(d.lines[i]) => i = e
               /\ (s < i /\ i < e) => LineMatch("extended", d.lines[i], d.languageId) = null

AnnotationLines(d) ==
    { i \in 1..Len(d.lines) : IsAnnotation(d.lines[i], d.languageId) }

\* C5: in the extended variant, for a document of a supported language with
\* N annotations outside its one fenced block and M immediately before it,
\* the records number N + M and the numbers of their code reference labels,
\* in record order, are 1, 2, ..., N + M; and whatever the document, the
\* labels of the records returned are 1, 2, ... in record order.
C5_LabelsSequential ==
    (Scanned /\ mode = "extended") =>
        /\ \A i \in 1..Len(ScannedEntries) :
               /\ HasCodeReference(ScannedEntries[i])
               /\ ScannedEntries[i].codeReference.label = i
        /\ (OneFencedBlock(docs[TheFile])
              /\ docs[TheFile].languageId \in SupportedLanguages) =>
               Len(ScannedEntries) = Cardinality(AnnotationLines(docs[TheFile]))

\* An annotation immediately before the fenced block and one after it, both
\* labelled
C5_Witness ==
    /\ Scanned
    /\ mode = "extended"
    /\ docs[TheFile].languageId = "javascript"
    /\ OneFencedBlock(docs[TheFile])
    /\ Len(docs[TheFile].lines) = 4
    /\ IsAnnotation(docs[TheFile].lines[1], "javascript")
    /\ IsBlockStart(docs[TheFile].lines[2])
    /\ IsAnnotation(docs[TheFile].lines[4], "javascript")
    /\ Len(ScannedEntries) = 2
    /\ ScannedEntries[2].codeReference.label = 2

\* C7: for a document of a supported language, every line that matches the
\* language's pattern with payload P has exactly one record, with its 1-based
\* line number and the text trim(P), and the records are in strictly
\* ascending line order; in both variants.
C7_OneRecordPerMatchingLine ==
    (Scanned /\ docs[TheFile].languageId \in SupportedLanguages) =>
        LET d == docs[TheFile] IN
        /\ \A i \in 1..Len(d.lines) :
               LET m == LineMatch(mode, d.lines[i], d.languageId) IN
               m # null =>
                   /\ Cardinality({ k \in 1..Len(ScannedEntries) :
                                      ScannedEntries[k].lineNumber = i }) = 1
                   /\ \A k \in 1..Len(ScannedEntries) :
                          ScannedEntries[k].lineNumber = i =>
                              ScannedEntries[k].comment = trim(Group(m, 2))
        /\ \A k, l \in 1..Len(ScannedEntries) :
               k < l => ScannedEntries[k].lineNumber < ScannedEntries[l].lineNumber

\* The same in the base variant alone, where it holds
BaseOneRecordPerMatchingLine == mode = "base" => C7_OneRecordPerMatchingLine

-----------------------------------------------------------------------------
(* Claims about the refresh, the report and disposal (Spec).                 *)

\* C1: generateMarkdownReport never reads a store whose entries were assigned
\* by two different updateChangeLog invocations.
C1_NoMixedGenerations == Cardinality(hist.observed) <= 1

RECURSIVE SumOfLengths(_, _)
SumOfLengths(log, i) ==
    IF i > Len(log) THEN 0 ELSE Len(log[i].entries) + SumOfLengths(log, i + 1)

Positions(doc, kind) == { i \in 1..Len(doc) : doc[i].kind = kind }

\* The documentation document doc holds nothing for an entry without
\* records, and for every other entry one heading followed by one list item
\* per record, in record order.
ReportMatches(log, doc) ==
    /\ \A k \in 1..Len(log) :
           LET entries == log[k].entries
               at == { i \in 1..Len(doc) : doc[i] = Heading(log[k].key) }
           IN  IF Len(entries) = 0
               THEN at = {}
               ELSE /\ Cardinality(at) = 1
                    /\ \A i \in at :
                           /\ i + Len(entries) + 1 <= Len(doc)
                           /\ \A j \in 1..Len(entries) :
                                  /\ doc[i + j].kind = "item"
                                  /\ doc[i + j].lineNumber = entries[j].lineNumber
                                  /\ doc[i + j].comment = entries[j].comment
                           /\ doc[i + Len(entries) + 1].kind = "blank"
    /\ Cardinality(Positions(doc, "item")) = SumOfLengths(log, 1)
    /\ Cardinality(Positions(doc, "heading")) =
           Cardinality({ k \in 1..Len(log) : Len(log[k].entries) > 0 })

\* The step in which the xompile.generateReport command reaches
\* generateMarkdownReport
ReportGenerated ==
    \E p \in DOMAIN inv :
        /\ inv[p].kind = "command"
        /\ inv[p].pc # "done"
        /\ inv'[p].pc = "done"

\* C8: the report generateMarkdownReport composes holds nothing for a store
\* entry without records, and for every entry with records exactly one
\* heading followed by exactly len(records) list items, in record order.
C8_ReportPerEntry == [][ReportGenerated => ReportMatches(changeLog', report'.doc)]_vars

\* A report over a store with an empty entry and two entries with records
C8_Witness ==
    /\ \E p \in DOMAIN inv : inv[p].kind = "command" /\ inv[p].pc = "done"
    /\ Keys(changeLog) = ScannedFiles
    /\ Lookup(changeLog, "/r1/b.js") = <<>>
    /\ Cardinality(Positions(report.doc, "heading")) = 2
    /\ Cardinality(Positions(report.doc, "item")) = 3

\* A step in which an invocation started by the timer assigns a store entry
TimerWrites ==
    \E p \in DOMAIN inv :
        /\ inv[p].kind = "timer"
        /\ inv[p].pc = "openTextDocument"
        /\ inv'[p] # inv[p]

\* C9 as claimed: once dispose() has been called no updateChangeLog
\* invocation starts and the scheduler neither clears nor writes the store,
\* not even through a refresh in flight at the disposal.
C9_NoRefreshAfterDispose ==
    [][~subscribed =>
          /\ ~updateInterval'
          /\ Len(inv') = Len(inv)
          /\ (changeLog' = <<>> => changeLog = <<>>)
          /\ ~TimerWrites]_vars

\* C9 as it holds: once dispose() has been called the timer is cancelled, no
\* updateChangeLog invocation starts and the store is not cleared again; a
\* refresh in flight at the disposal is not cancelled.
C9_NoRefreshStartsAfterDispose ==
    [][/\ ~subscribed' => ~updateInterval'
       /\ ~subscribed =>
             /\ Len(inv') = Len(inv)
             /\ (changeLog' = <<>> => changeLog = <<>>)]_vars

\* Disposed with a refresh of the timer in flight, a timer period later
C9_Witness ==
    /\ ~subscribed
    /\ ~updateInterval
    /\ \E p \in DOMAIN inv : inv[p].kind = "timer" /\ InFlight(p)
    /\ now > Len(inv)

\* An invocation in flight awaits a call the host will resolve: findFiles for
\* a folder of the workspace, or openTextDocument for a file it found.
CanResume(p) ==
    \/ /\ inv[p].pc = "findFiles"
       /\ inv[p].folder \in 1..Len(workspaceFolders)
    \/ /\ inv[p].pc = "openTextDocument"
       /\ inv[p].file \in 1..Len(inv[p].files)
       /\ inv[p].files[inv[p].file] \in DOMAIN docs

\* C10: a file whose language identifier is not supported gets an empty entry
\* and stops nothing: every invocation in flight can take its next step, and
\* an invocation that is done has assigned every file of every folder.
C10_UnsupportedLanguageSkipped ==
    /\ \A k \in 1..Len(changeLog) :
           docs[changeLog[k].key].languageId \notin SupportedLanguages =>
               changeLog[k].entries = <<>>
    /\ \A p \in DOMAIN inv :
           /\ InFlight(p) => CanResume(p)
           /\ ~InFlight(p) =>
                  inv[p].written = {"/r1/a.js", "/r1/b.js", "/r2/c.py"}

\* A refresh that scanned /r1/b.js before /r1/a.js and went on to /r2/c.py
C10_Witness ==
    /\ Len(inv) = 1
    /\ ~InFlight(1)
    /\ Len(changeLog) = 3
    /\ changeLog[1].key = "/r1/b.js"
    /\ changeLog[1].entries = <<>>
    /\ Len(changeLog[2].entries) = 2
    /\ Len(changeLog[3].entries) = 1

-----------------------------------------------------------------------------
(* Claims about rollbackToComment and two refreshes in succession            *)
(* (SpecRollback).                                                           *)

\* The step in which the command calls rollbackToComment(cmd.filename,
\* cmd'.commentNumber)
Called == cmd.pc = "prompt" /\ cmd'.pc = "idle" /\ ~cmd'.nan

\* The store has a record with lineNumber n for file f
HasRecord(f, n) ==
    /\ HasKey(changeLog, f)
    /\ \E i \in 1..Len(Lookup(changeLog, f)) : Lookup(changeLog, f)[i].lineNumber = n

OtherBuffersKept(f) == \A g \in DOMAIN docs : g # f => docs'[g] = docs[g]

\* lines2 is lines1 with exactly one line removed
OneLineRemoved(lines1, lines2) ==
    /\ Len(lines2) = Len(lines1) - 1
    /\ \E r \in 1..Len(lines1) :
           \A i \in 1..Len(lines2) : lines2[i] = IF i < r THEN lines1[i] ELSE lines1[i + 1]

\* C2 as claimed: with a matching record and the file focused, the call
\* removes exactly one line from the buffer.
C2_RemovesOneLine ==
    [][(Called /\ HasRecord(cmd.filename, cmd'.commentNumber)
          /\ activeTextEditor = cmd.filename) =>
          OneLineRemoved(docs[cmd.filename].lines, docs'[cmd.filename].lines)]_vars

\* C2 as it holds: with a matching record and the file focused, the call
\* changes nothing but the text of line n: the line count stays, every other
\* line and buffer stays, and line n is emptied or, when the host rejects the
\* edit, kept; when the buffer has no line n any more nothing changes and no
\* success is reported.
C2_BlanksOneLine ==
    [][(Called /\ HasRecord(cmd.filename, cmd'.commentNumber)
          /\ activeTextEditor = cmd.filename) =>
          LET f == cmd.filename
              n == cmd'.commentNumber
              before == docs[f].lines
              after == docs'[f].lines
          IN  /\ OtherBuffersKept(f)
              /\ Len(after) = Len(before)
              /\ \A i \in 1..Len(before) : i # n => after[i] = before[i]
              /\ IF n <= Len(before)
                 THEN after[n] \in {<<>>, before[n]} /\ message' = "Rolled back"
                 ELSE message' = "Illegal value for line"]_vars

\* Line 3 of /r1/a.js emptied, the lines before it kept
C2_Witness ==
    /\ cmd.pc = "idle"
    /\ cmd.filename = "/r1/a.js"
    /\ ~cmd.nan
    /\ cmd.commentNumber = 3
    /\ message = "Rolled back"
    /\ docs["/r1/a.js"].lines = [SampleDocs["/r1/a.js"].lines EXCEPT ![3] = <<>>]

NotFound == {"No history found", "Comment not found"}

\* C3: a call for a file without a store entry, or without a record at line
\* n, shows a not-found notice and leaves every buffer as it was.
C3_NotFoundKeepsBuffer ==
    [][(Called /\ ~HasRecord(cmd.filename, cmd'.commentNumber)) =>
          /\ message' \in NotFound
          /\ docs' = docs]_vars

\* A call for /r1/a.js that found no entry: the second refresh had started,
\* and cleared the store
C3_Witness ==
    /\ cmd.pc = "idle"
    /\ ~cmd.nan
    /\ cmd.filename = "/r1/a.js"
    /\ cmd.commentNumber = 1
    /\ cmd.started = 2
    /\ message = "No history found"
    /\ docs = SampleDocs

\* C4 as claimed: the call never edits a buffer other than filePath's;
\* without a focused editor it shows the no-active-editor notice, with
\* another buffer focused the wrong-buffer notice, and edits nothing.
C4_WrongBufferNotices ==
    [][Called =>
          /\ OtherBuffersKept(cmd.filename)
          /\ activeTextEditor = NoEditor =>
                 message' = "No active editor" /\ docs' = docs
          /\ activeTextEditor \notin {NoEditor, cmd.filename} =>
                 message' = "Please open" /\ docs' = docs]_vars

\* C4 as it holds: the call never edits a buffer other than filePath's, and
\* edits nothing unless filePath's buffer is focused; the no-active-editor
\* and wrong-buffer notices are shown when the store has a record at line n
\* of filePath, and a not-found notice when it has none.
C4_NeverEditsAnotherBuffer ==
    [][Called =>
          /\ OtherBuffersKept(cmd.filename)
          /\ activeTextEditor # cmd.filename =>
                 /\ docs' = docs
                 /\ message' # "Rolled back"
                 /\ IF HasRecord(cmd.filename, cmd'.commentNumber)
                    THEN message' = IF activeTextEditor = NoEditor
                                    THEN "No active editor"
                                    ELSE "Please open"
                    ELSE message' \in NotFound]_vars

\* The focus moved to /r2/c.py while the command for /r1/a.js was at its prompt
C4_Witness ==
    /\ cmd.pc = "idle"
    /\ cmd.filename = "/r1/a.js"
    /\ activeTextEditor = "/r2/c.py"
    /\ message = "Please open"
    /\ docs = SampleDocs

\* C6: two refreshes in succession, each run alone to completion over a
\* workspace not edited meanwhile, leave stores with the same keys and, per
\* key, the same records but for the timestamps.
C6_RefreshIdempotent ==
    Len(hist.snapshots) = 2 => hist.snapshots[1] = hist.snapshots[2]

\* Two such refreshes, at different times, over the whole workspace
C6_Witness ==
    /\ Len(hist.snapshots) = 2
    /\ DOMAIN hist.snapshots[2] = ScannedFiles
    /\ Len(hist.snapshots[2]["/r1/a.js"]) = 2
    /\ Len(inv) = 2
    /\ changeLog[1].entries[1].timestamp = 2

-----------------------------------------------------------------------------
(* Claims about the store the report is composed from (Spec).                *)

\* C11: when the xompile.generateReport command's own updateChangeLog call has
\* completed and generateMarkdownReport reads the store, the store holds an
\* entry for every supported, non-excluded file of every workspace folder,
\* also when a timer-triggered updateChangeLog started meanwhile.
C11_StoreCompleteAtReport == [][ReportGenerated => Keys(changeLog') = ScannedFiles]_vars

\* The pairs <<k, j>> naming record j of store entry k
Records(log) == { <<k, j>> \in (1..Len(log)) \X (1..MaxLines) : j <= Len(log[k].entries) }

\* No two records of the store carry the same code reference number
LabelsUnique(log) ==
    \A x, y \in Records(log) :
        x # y => log[x[1]].entries[x[2]].codeReference.label
                   # log[y[1]].entries[y[2]].codeReference.label

\* Every record has its heading in the code document, and the id of the
\* heading is the number of the record's anchor
AnchorsMatch(log, code) ==
    /\ Cardinality(Positions(code, "snippet")) = Cardinality(Records(log))
    /\ \A i \in Positions(code, "snippet") : code[i].id = code[i].docReference.anchor

\* The step in which the command composes its report from the store that one
\* refresh, and no other, filled with every file of the workspace
ReportAfterCompleteRefresh ==
    /\ ReportGenerated
    /\ mode = "extended"
    /\ Keys(changeLog') = ScannedFiles
    /\ Cardinality(Generations(changeLog')) = 1

\* C12: in the extended variant, after a complete refresh of a workspace with
\* several annotated files, no two records of the store carry the same code
\* reference number, and the number of a record's anchor is the id of the
\* heading generateMarkdownReport emits for that record in the code document.
C12_LabelsGloballyUnique ==
    [][ReportAfterCompleteRefresh =>
           /\ LabelsUnique(changeLog')
           /\ AnchorsMatch(changeLog', report'.code)]_vars

====
